---- MODULE Spec2Model ----
(***************************************************************************)
(* FTMS: the SQLite/FTS5 file index (src/ftms/index.rs), the on-disk file  *)
(* store (src/ftms/storage.rs), content derivation (src/ftms/extract.rs,   *)
(* src/ftms/describe.rs) and the upload pipeline (src/ftms/mod.rs).        *)
(*                                                                         *)
(* Strings that the code inspects character by character (mime types,     *)
(* filenames, indexed text, queries) are sequences of one-character       *)
(* strings; opaque strings (ids, session ids, channels, paths) are atoms.  *)
(* Option<T> is the empty tuple (None) or a one-element tuple (Some).      *)
(***************************************************************************)
EXTENDS Integers, Sequences, FiniteSets, TLC

\* ------------------------------------------------------------------------
\* Bounds of the model
\* ------------------------------------------------------------------------

\* usize and u64 are WordBits wide in the model, i64 is its signed half
WordBits == 4

\* largest number of rows the base table may hold
MaxRows == 2

\* largest ordinary offset / limit passed to list and search
MaxArg == 1

\* largest rowid the base table hands out once rows are deleted
MaxRowid == 3

\* largest number of upload calls
MaxUploads == 2

\* largest number of concurrent calls on the index
MaxCalls == 2

\* lengths of texts are modelled at a scale of 1 : TextScale, so that texts
\* around the cap of extract_text stay small (102 400 bytes become 128)
TextScale == 800

USIZE_MAX == 2 ^ WordBits - 1

I64_MAX == 2 ^ (WordBits - 1) - 1

\* ------------------------------------------------------------------------
\* Option and Result
\* ------------------------------------------------------------------------

None == <<>>

Some(x) == <<x>>

IsSome(o) == o # <<>>

Unwrap(o) == o[1]

\* ------------------------------------------------------------------------
\* Characters
\* ------------------------------------------------------------------------

UPPER == <<"A","B","C","D","E","F","G","H","I","J","K","L","M",
           "N","O","P","Q","R","S","T","U","V","W","X","Y","Z">>

LOWER == <<"a","b","c","d","e","f","g","h","i","j","k","l","m",
           "n","o","p","q","r","s","t","u","v","w","x","y","z">>

DIGITS == {"0","1","2","3","4","5","6","7","8","9"}

UpperSet == {UPPER[i] : i \in 1..26}

AlnumSet == UpperSet \cup {LOWER[i] : i \in 1..26} \cup DIGITS

LowerOf == [c \in UpperSet |-> LOWER[CHOOSE i \in 1..26 : UPPER[i] = c]]

IsUpper(c) == c \in UpperSet

ToLower(c) == IF c \in UpperSet THEN LowerOf[c] ELSE c

IsAlnum(c) == c \in AlnumSet

Fold(s) == [k \in 1..Len(s) |-> ToLower(s[k])]

Range(s) == {s[k] : k \in 1..Len(s)}

Min(a, b) == IF a < b THEN a ELSE b

Max(a, b) == IF a > b THEN a ELSE b

\* ------------------------------------------------------------------------
\* SQLite: integer conversions done by rusqlite and by the engine
\* ------------------------------------------------------------------------

\* rusqlite binds a u64 through i64::try_from: Some(i64) or a conversion error
ToSqlU64(n) == IF n <= I64_MAX THEN Some(n) ELSE None

\* `x as u64` of a stored i64 (index.rs:117)
AsU64(n) == IF n < 0 THEN n + 2 ^ WordBits ELSE n

\* `limit as i64` of a usize (index.rs:184)
AsI64(n) == IF n > I64_MAX THEN n - 2 ^ WordBits ELSE n

\* LIMIT/OFFSET bound as the decimal TEXT of a usize (index.rs:234-235): the
\* engine converts it back with numeric affinity and refuses (datatype
\* mismatch) a value that is no 64-bit signed integer
MustBeInt(n) == IF n <= I64_MAX THEN Some(n) ELSE None

\* ------------------------------------------------------------------------
\* FTS5: unicode61 tokenizer, query parser, LIKE
\* ------------------------------------------------------------------------

\* length of the alphanumeric run at the head of s
RunLen(s) ==
    LET stops == {k \in 1..Len(s) : ~IsAlnum(s[k])}
    IN  IF stops = {} THEN Len(s) ELSE (CHOOSE k \in stops : \A j \in stops : k <= j) - 1

RECURSIVE TokenSeq(_)
\* the tokens of a text, in order: maximal alphanumeric runs, case-folded
TokenSeq(s) ==
    IF s = <<>> THEN <<>>
    ELSE IF ~IsAlnum(s[1]) THEN TokenSeq(Tail(s))
    ELSE LET n == RunLen(s)
         IN  <<Fold(SubSeq(s, 1, n))>> \o TokenSeq(SubSeq(s, n + 1, Len(s)))

\* tokens of a nullable column value (NULL indexes nothing)
ColTokens(v) == IF IsSome(v) THEN TokenSeq(Unwrap(v)) ELSE <<>>

FtsCols == {"filename", "extracted_text", "ai_description", "tags"}

\* the four indexed values of a row, as the triggers pass them (filename is
\* NOT NULL, the other three are nullable)
FtsValues(row) ==
    [filename       |-> Some(row.filename),
     extracted_text |-> row.extracted_text,
     ai_description |-> row.ai_description,
     tags           |-> row.tags]

\* postings <<rowid, column, position, token>> of one column of a document
ColPostings(rowid, c, toks) == {<<rowid, c, p, toks[p]>> : p \in 1..Len(toks)}

\* postings of one document
Postings(rowid, vals) ==
    UNION {ColPostings(rowid, c, ColTokens(vals[c])) : c \in FtsCols}

\* INSERT INTO ftms_fts(rowid, ...): add the document
FtsInsert(fts, rowid, vals) ==
    [docs     |-> fts.docs \cup {rowid},
     postings |-> fts.postings \cup Postings(rowid, vals)]

\* INSERT INTO ftms_fts(ftms_fts, rowid, ...) VALUES('delete', ...): remove the
\* postings that the supplied values produce for that rowid
FtsDelete(fts, rowid, vals) ==
    [docs     |-> fts.docs \ {rowid},
     postings |-> fts.postings \ Postings(rowid, vals)]

\* trigger ftms_ai
ftms_ai(fts, rowid, new) == FtsInsert(fts, rowid, FtsValues(new))

\* trigger ftms_ad
ftms_ad(fts, rowid, old) == FtsDelete(fts, rowid, FtsValues(old))

\* ftms_au without its 'delete' command: the old postings stay behind
ftms_au_keep_old(fts, rowid, old, new) == FtsInsert(fts, rowid, FtsValues(new))

\* trigger ftms_au
ftms_au(fts, rowid, old, new) ==
    FtsInsert(FtsDelete(fts, rowid, FtsValues(old)), rowid, FtsValues(new))

FtsKeywords == {<<"A","N","D">>, <<"O","R">>, <<"N","O","T">>}

IsBareword(q) == q # <<>> /\ \A k \in 1..Len(q) : IsAlnum(q[k]) \/ q[k] = "_"

\* the FTS5 query parser on the queries of the model: a bareword that is no
\* operator is a phrase of its tokens, anything else is a syntax error
FtsParse(q) == IF IsBareword(q) /\ q \notin FtsKeywords THEN Some(TokenSeq(q)) ELSE None

\* rowids of the documents in which the phrase occurs in some column
FtsMatch(fts, phrase) ==
    IF phrase = <<>> THEN {}
    ELSE {y[1] : y \in {x \in fts.postings :
                  \A k \in 1..Len(phrase) :
                     <<x[1], x[2], x[3] + k - 1, phrase[k]>> \in fts.postings}}

RECURSIVE Like(_, _)
\* SQLite's LIKE: % is any run, _ is any one character, ASCII letters match
\* without regard to case
Like(pat, s) ==
    IF pat = <<>> THEN s = <<>>
    ELSE IF pat[1] = "%"
         THEN \E k \in 0..Len(s) : Like(Tail(pat), SubSeq(s, k + 1, Len(s)))
         ELSE /\ s # <<>>
              /\ (pat[1] = "_" \/ ToLower(pat[1]) = ToLower(s[1]))
              /\ Like(Tail(pat), Tail(s))

\* ------------------------------------------------------------------------
\* The database behind the connection: base table ftms_files (rowid -> row)
\* and the external-content index ftms_fts
\* ------------------------------------------------------------------------

FileRecord(id, filename, mime_type, file_path, file_size, extracted_text, ai_description, session_id, channel, uploaded_at, tags) ==
    [id |-> id, filename |-> filename, mime_type |-> mime_type,
     file_path |-> file_path, file_size |-> file_size,
     extracted_text |-> extracted_text, ai_description |-> ai_description,
     session_id |-> session_id, channel |-> channel,
     uploaded_at |-> uploaded_at, tags |-> tags]

EmptyTable == [r \in {} |-> None]

EmptyFts == [docs |-> {}, postings |-> {}]

\* init_schema on a fresh database
init_schema == [files |-> EmptyTable, fts |-> EmptyFts]

Rowids(db) == DOMAIN db.files

SetMax(S) == CHOOSE m \in S : \A x \in S : x <= m

\* rowid of a new row of a table without INTEGER PRIMARY KEY: largest + 1
NewRowid(db) == IF Rowids(db) = {} THEN 1 ELSE SetMax(Rowids(db)) + 1

RowidOf(db, id) == {r \in Rowids(db) : db.files[r].id = id}

\* INSERT OR REPLACE: a row with the same id is replaced instead of refused
SqlInsert_or_replace(db, record, engine_ok) ==
    IF ~IsSome(ToSqlU64(record.file_size)) \/ ~engine_ok
    THEN None
    ELSE LET keep == Rowids(db) \ RowidOf(db, record.id)
             rid  == IF keep = {} THEN 1 ELSE SetMax(keep) + 1
             row  == [record EXCEPT !.file_size = Unwrap(ToSqlU64(record.file_size))]
         IN  Some([files |-> [r \in keep \cup {rid} |->
                                 IF r = rid THEN row ELSE db.files[r]],
                   fts   |-> ftms_ai(db.fts, rid, row)])

\* session_id and channel bound to each other's column
SqlInsert_swapped(db, record, engine_ok) ==
    IF ~IsSome(ToSqlU64(record.file_size)) \/ ~engine_ok \/ RowidOf(db, record.id) # {}
    THEN None
    ELSE LET rid == NewRowid(db)
             row == [record EXCEPT !.file_size = Unwrap(ToSqlU64(record.file_size)),
                                   !.session_id = record.channel,
                                   !.channel = record.session_id]
         IN  Some([files |-> [r \in Rowids(db) \cup {rid} |->
                                 IF r = rid THEN row ELSE db.files[r]],
                   fts   |-> ftms_ai(db.fts, rid, row)])

\* INSERT INTO ftms_files ... with trigger ftms_ai; None on a failed statement
\* (u64 that does not fit i64, PRIMARY KEY conflict, engine failure)
SqlInsert(db, record, engine_ok) ==
    IF ~IsSome(ToSqlU64(record.file_size)) \/ ~engine_ok \/ RowidOf(db, record.id) # {}
    THEN None
    ELSE LET rid == NewRowid(db)
             row == [record EXCEPT !.file_size = Unwrap(ToSqlU64(record.file_size))]
         IN  Some([files |-> [r \in Rowids(db) \cup {rid} |->
                                 IF r = rid THEN row ELSE db.files[r]],
                   fts   |-> ftms_ai(db.fts, rid, row)])

\* no trigger on UPDATE
FireUpdate_none(fts, old_files, new_files, rids) == fts

RECURSIVE FireUpdate(_, _, _, _)
\* trigger ftms_au, once per updated row
FireUpdate(fts, old_files, new_files, rids) ==
    IF rids = {} THEN fts
    ELSE LET r == CHOOSE x \in rids : TRUE
         IN  FireUpdate(ftms_au(fts, r, old_files[r], new_files[r]),
                        old_files, new_files, rids \ {r})

\* the UPDATE without its WHERE clause: every row is rewritten
SqlUpdate_all_rows(db, id, text, description, engine_ok) ==
    IF ~engine_ok THEN None
    ELSE LET hit == Rowids(db)
             nf  == [r \in Rowids(db) |->
                        [db.files[r] EXCEPT !.extracted_text = text,
                                            !.ai_description = description]]
         IN  Some([db      |-> [files |-> nf,
                                fts   |-> FireUpdate(db.fts, db.files, nf, hit)],
                   changes |-> Cardinality(hit)])

\* an UPDATE that changes no row reported as a failure
SqlUpdate_strict(db, id, text, description, engine_ok) ==
    IF ~engine_ok \/ RowidOf(db, id) = {} THEN None
    ELSE LET hit == RowidOf(db, id)
             nf  == [r \in Rowids(db) |->
                        IF r \in hit
                        THEN [db.files[r] EXCEPT !.extracted_text = text,
                                                 !.ai_description = description]
                        ELSE db.files[r]]
         IN  Some([db      |-> [files |-> nf,
                                fts   |-> FireUpdate(db.fts, db.files, nf, hit)],
                   changes |-> Cardinality(hit)])

\* UPDATE ftms_files SET extracted_text = ?1, ai_description = ?2 WHERE id = ?3
\* with trigger ftms_au; None on a failed statement, else the new database
\* and the number of rows changed
SqlUpdate(db, id, text, description, engine_ok) ==
    IF ~engine_ok THEN None
    ELSE LET hit == RowidOf(db, id)
             nf  == [r \in Rowids(db) |->
                        IF r \in hit
                        THEN [db.files[r] EXCEPT !.extracted_text = text,
                                                 !.ai_description = description]
                        ELSE db.files[r]]
         IN  Some([db      |-> [files |-> nf,
                                fts   |-> FireUpdate(db.fts, db.files, nf, hit)],
                   changes |-> Cardinality(hit)])

\* DELETE FROM ftms_files WHERE rowid = ? with trigger ftms_ad
SqlDelete(db, rid) ==
    [files |-> [r \in Rowids(db) \ {rid} |-> db.files[r]],
     fts   |-> ftms_ad(db.fts, rid, db.files[rid])]

\* a row read back as a FileRecord (row_to_record and the closures of get/search)
row_to_record(row) == [row EXCEPT !.file_size = AsU64(row.file_size)]

\* a lookup that finds only rows whose extracted_text is set
QueryGet_text_required(db, id) ==
    IF \E r \in RowidOf(db, id) : IsSome(db.files[r].extracted_text)
    THEN Some(row_to_record(db.files[CHOOSE r \in RowidOf(db, id) : TRUE]))
    ELSE None

\* SELECT ... FROM ftms_files WHERE id = ?1 through query_row (get): the
\* QueryReturnedNoRows error becomes Ok(None)
QueryGet(db, id) ==
    IF RowidOf(db, id) = {} THEN None
    ELSE Some(row_to_record(db.files[CHOOSE r \in RowidOf(db, id) : TRUE]))

\* build_filter: the WHERE clauses and the two parameter lists
build_filter(session_id, mime_prefix, offset, limit) ==
    LET c1 == IF IsSome(session_id) THEN <<"session_id = ?">> ELSE <<>>
        p1 == IF IsSome(session_id) THEN <<Unwrap(session_id)>> ELSE <<>>
        c2 == IF IsSome(mime_prefix) THEN <<"mime_type LIKE ?">> ELSE <<>>
        p2 == IF IsSome(mime_prefix) THEN <<Unwrap(mime_prefix) \o <<"%">> >> ELSE <<>>
    IN  [where_sql    |-> c1 \o c2,
         count_params |-> p1 \o p2,
         query_params |-> (p1 \o p2) \o <<limit, offset>>]

\* the engine's evaluation of the generated WHERE clause on one row (a NULL
\* session_id compares as not equal; an empty clause list selects every row)
WhereHolds(row, where_sql, params) ==
    \A k \in 1..Len(where_sql) :
        IF where_sql[k] = "session_id = ?"
        THEN IsSome(row.session_id) /\ Unwrap(row.session_id) = params[k]
        ELSE Like(params[k], row.mime_type)

\* SELECT COUNT(*) FROM ftms_files {where}
QueryCount(db, where_sql, params) ==
    Cardinality({r \in Rowids(db) : WhereHolds(db.files[r], where_sql, params)})

\* the orders in which ORDER BY uploaded_at DESC may deliver the rowids S
\* (rows with equal uploaded_at come in an order the engine chooses)
OrderedDesc(db, S) ==
    {f \in [1..Cardinality(S) -> S] :
        /\ \A i, j \in 1..Cardinality(S) : i # j => f[i] # f[j]
        /\ \A i, j \in 1..Cardinality(S) :
              i < j => db.files[f[i]].uploaded_at >= db.files[f[j]].uploaded_at}

\* SELECT ... {where} ORDER BY uploaded_at DESC LIMIT ? OFFSET ? collected
\* through filter_map(|r| r.ok()): the possible `files` vectors.  LIMIT and
\* OFFSET are the last two parameters; when the engine refuses one of them
\* the first row is an Err, which filter_map drops, and the vector is empty.
QueryPage(db, where_sql, params) ==
    LET n     == Len(where_sql)
        lim   == MustBeInt(params[n + 1])
        off   == MustBeInt(params[n + 2])
        S     == {r \in Rowids(db) : WhereHolds(db.files[r], where_sql, params)}
    IN  IF ~IsSome(lim) \/ ~IsSome(off) THEN {<<>>}
        ELSE {[k \in 1..Max(0, Min(Unwrap(lim), Cardinality(S) - Unwrap(off))) |->
                  row_to_record(db.files[f[Unwrap(off) + k]])] : f \in OrderedDesc(db, S)}

\* list: the possible responses
ListResponses(db, offset, limit, session_id, mime_prefix) ==
    LET b == build_filter(session_id, mime_prefix, offset, limit)
    IN  {[files |-> page, total |-> QueryCount(db, b.where_sql, b.count_params),
          offset |-> offset, limit |-> limit] :
            page \in QueryPage(db, b.where_sql, b.query_params)}

\* the sequences of k distinct elements of S (bm25 rank is not modelled: any
\* order of the matching rows may be the rank order)
Arrangements(S, k) ==
    {f \in [1..k -> S] : \A i, j \in 1..k : i # j => f[i] # f[j]}

\* search: the possible result vectors (the file of each FileSearchResult, in
\* rank order).  A query the FTS5 parser rejects fails at the first step of
\* the statement, so every row is an Err that filter_map drops.
SearchResults(db, query, limit) ==
    LET parsed == FtsParse(query)
        lim    == AsI64(limit)
        S      == IF IsSome(parsed)
                  THEN FtsMatch(db.fts, Unwrap(parsed)) \cap Rowids(db) ELSE {}
        k      == IF lim < 0 THEN Cardinality(S) ELSE Min(lim, Cardinality(S))
    IN  {[i \in 1..k |-> row_to_record(db.files[f[i]])] : f \in Arrangements(S, k)}

\* ------------------------------------------------------------------------
\* Content derivation (extract.rs, describe.rs).  File bytes are integers
\* 0..255; the bytes of the model are ASCII and 0xFF (never valid UTF-8).
\* ------------------------------------------------------------------------

\* Maximum text to extract: const MAX_TEXT_LEN: usize = 102_400, at the scale
\* of the model
MAX_TEXT_LEN == 102400 \div TextScale

\* the ASCII characters, by code + 1
ASCII == <<
    "x00","x01","x02","x03","x04","x05","x06","x07",
    "x08","\t","\n","x0B","\f","\r","x0E","x0F",
    "x10","x11","x12","x13","x14","x15","x16","x17",
    "x18","x19","x1A","x1B","x1C","x1D","x1E","x1F",
    " ","!","\"","#","$","%","&","'",
    "(",")","*","+",",","-",".","/",
    "0","1","2","3","4","5","6","7",
    "8","9",":",";","<","=",">","?",
    "@","A","B","C","D","E","F","G",
    "H","I","J","K","L","M","N","O",
    "P","Q","R","S","T","U","V","W",
    "X","Y","Z","[","x5C","]","^","_",
    "x60","a","b","c","d","e","f","g",
    "h","i","j","k","l","m","n","o",
    "p","q","r","s","t","u","v","w",
    "x","y","z","{","|","}","~","x7F">>

\* U+FFFD REPLACEMENT CHARACTER, three bytes in UTF-8
REPLACEMENT == "U+FFFD"

\* str::from_utf8: the text, or None when a byte is not valid UTF-8
from_utf8(data) ==
    IF \A k \in 1..Len(data) : data[k] < 128
    THEN Some([k \in 1..Len(data) |-> ASCII[data[k] + 1]])
    ELSE None

\* String::from_utf8_lossy: every invalid byte becomes U+FFFD
from_utf8_lossy(data) ==
    [k \in 1..Len(data) |-> IF data[k] < 128 THEN ASCII[data[k] + 1] ELSE REPLACEMENT]

\* length of a character in UTF-8 bytes
Utf8Len(c) == IF c = REPLACEMENT THEN 3 ELSE 1

\* String::len: one byte for every character and the further bytes of the
\* characters that take more (U+FFFD is the only one in the model)
ByteLen(text) ==
    Len(text) + Cardinality({k \in 1..Len(text) : Utf8Len(text[k]) > 1})
                   * (Utf8Len(REPLACEMENT) - 1)

WhiteSpace == {" ", "\t", "\n", "\r", "\f", "x0B"}

\* text.trim().is_empty()
IsBlank(text) == \A k \in 1..Len(text) : text[k] \in WhiteSpace

\* number of leading characters of text that make up at most n bytes, and
\* whether byte offset n falls on a character boundary
CharsWithin(text, n) ==
    CHOOSE k \in 0..Len(text) :
        /\ ByteLen(SubSeq(text, 1, k)) <= n
        /\ (k = Len(text) \/ ByteLen(SubSeq(text, 1, k + 1)) > n)

\* text[..MAX_TEXT_LEN] panics when the offset is inside a character
TruncatePanics(text) ==
    /\ ~IsBlank(text)
    /\ ByteLen(text) > MAX_TEXT_LEN
    /\ ByteLen(SubSeq(text, 1, CharsWithin(text, MAX_TEXT_LEN))) # MAX_TEXT_LEN

truncate_text(text) ==
    IF IsBlank(text) THEN None
    ELSE IF ByteLen(text) > MAX_TEXT_LEN
         THEN Some(SubSeq(text, 1, CharsWithin(text, MAX_TEXT_LEN)))
         ELSE Some(text)

PDF_PLACEHOLDER == <<"[","P","D","F"," ","d","o","c","u","m","e","n","t"," ","-"," ","e","n","a","b","l","e"," ","p","d","f"," ","f","e","a","t","u","r","e"," ","f","o","r"," ","t","e","x","t"," ","e","x","t","r","a","c","t","i","o","n","]">>

\* extract_pdf: the placeholder in a build without the rag-pdf feature; with
\* the feature, the outcome of pdf_extract (None on failure, else its text)
extract_pdf(data, pdf) ==
    IF pdf = "no_feature" THEN Some(PDF_PLACEHOLDER)
    ELSE IF pdf = "failed" THEN None
    ELSE truncate_text(from_utf8_lossy(data))

starts_with(s, prefix) ==
    Len(s) >= Len(prefix) /\ SubSeq(s, 1, Len(prefix)) = prefix

TextTypes == {<<"t","e","x","t","/","p","l","a","i","n">>, <<"t","e","x","t","/","m","a","r","k","d","o","w","n">>, <<"t","e","x","t","/","c","s","v">>, <<"t","e","x","t","/","h","t","m","l">>, <<"t","e","x","t","/","x","m","l">>, <<"a","p","p","l","i","c","a","t","i","o","n","/","j","s","o","n">>, <<"a","p","p","l","i","c","a","t","i","o","n","/","x","m","l">>}

APPLICATION_PDF == <<"a","p","p","l","i","c","a","t","i","o","n","/","p","d","f">>

IMAGE_ == <<"i","m","a","g","e","/">>

AUDIO_ == <<"a","u","d","i","o","/">>

VIDEO_ == <<"v","i","d","e","o","/">>

IsMedia(mime_type) ==
    starts_with(mime_type, IMAGE_) \/ starts_with(mime_type, AUDIO_)
        \/ starts_with(mime_type, VIDEO_)

\* extract_text raises a panic instead of returning
extract_text_panics(data, mime_type, pdf) ==
    IF mime_type \in TextTypes THEN TruncatePanics(from_utf8_lossy(data))
    ELSE IF mime_type = APPLICATION_PDF
         THEN pdf = "extracted" /\ TruncatePanics(from_utf8_lossy(data))
    ELSE IF IsMedia(mime_type) THEN FALSE
    ELSE IsSome(from_utf8(data)) /\ TruncatePanics(Unwrap(from_utf8(data)))

\* extract_text without its arm for images, audio and video
extract_text_media_as_unknown(data, mime_type, pdf) ==
    IF mime_type \in TextTypes THEN truncate_text(from_utf8_lossy(data))
    ELSE IF mime_type = APPLICATION_PDF THEN extract_pdf(data, pdf)
    ELSE IF IsSome(from_utf8(data)) /\ ~IsBlank(Unwrap(from_utf8(data)))
         THEN truncate_text(Unwrap(from_utf8(data)))
         ELSE None

\* extract_text (its Result is always Ok; the value is the Option inside)
extract_text(data, mime_type, pdf) ==
    IF mime_type \in TextTypes THEN truncate_text(from_utf8_lossy(data))
    ELSE IF mime_type = APPLICATION_PDF THEN extract_pdf(data, pdf)
    ELSE IF IsMedia(mime_type) THEN None
    ELSE IF IsSome(from_utf8(data)) /\ ~IsBlank(Unwrap(from_utf8(data)))
         THEN truncate_text(Unwrap(from_utf8(data)))
         ELSE None

B64 == <<"A","B","C","D","E","F","G","H","I","J","K","L","M","N","O","P","Q","R","S","T","U","V","W","X","Y","Z","a","b","c","d","e","f","g","h","i","j","k","l","m","n","o","p","q","r","s","t","u","v","w","x","y","z","0","1","2","3","4","5","6","7","8","9","+","/">>

RECURSIVE Base64(_)
\* base64::engine::general_purpose::STANDARD.encode
Base64(data) ==
    IF data = <<>> THEN <<>>
    ELSE IF Len(data) = 1
         THEN <<B64[data[1] \div 4 + 1], B64[(data[1] % 4) * 16 + 1], "=", "=">>
    ELSE IF Len(data) = 2
         THEN <<B64[data[1] \div 4 + 1],
                B64[(data[1] % 4) * 16 + data[2] \div 16 + 1],
                B64[(data[2] % 16) * 4 + 1], "=">>
    ELSE <<B64[data[1] \div 4 + 1],
           B64[(data[1] % 4) * 16 + data[2] \div 16 + 1],
           B64[(data[2] % 16) * 4 + data[3] \div 64 + 1],
           B64[(data[3] % 64) + 1]>> \o Base64(SubSeq(data, 4, Len(data)))

RECURSIVE Decimal(_)
\* the decimal digits of a number, as format!("{}") prints it
Decimal(n) ==
    IF n < 10 THEN <<ASCII[48 + n + 1]>>
    ELSE Decimal(n \div 10) \o <<ASCII[48 + (n % 10) + 1]>>

\* describe_media (its Result is always Ok; the value is the Option inside)
describe_media(data, mime_type, filename) ==
    IF starts_with(mime_type, IMAGE_)
    THEN Some(<<"[","U","p","l","o","a","d","e","d"," ","i","m","a","g","e",":"," ">> \o filename \o <<"]","\n","[","I","M","A","G","E",":">>
              \o (<<"d","a","t","a",":">> \o mime_type \o <<";","b","a","s","e","6","4",",">> \o Base64(data))
              \o <<"]">>)
    ELSE IF starts_with(mime_type, AUDIO_)
    THEN Some(<<"[","U","p","l","o","a","d","e","d"," ","a","u","d","i","o"," ","f","i","l","e",":"," ">> \o filename \o <<","," ","s","i","z","e",":"," ">>
              \o Decimal(Len(data)) \o <<" ","b","y","t","e","s","]">>)
    ELSE IF starts_with(mime_type, VIDEO_)
    THEN Some(<<"[","U","p","l","o","a","d","e","d"," ","v","i","d","e","o"," ","f","i","l","e",":"," ">> \o filename \o <<","," ","s","i","z","e",":"," ">>
              \o Decimal(Len(data)) \o <<" ","b","y","t","e","s","]">>)
    ELSE None

\* the known extensions and their MIME types
MimeTable ==
    {<<<<"t","x","t">>, <<"t","e","x","t","/","p","l","a","i","n">>>>,
     <<<<"m","d">>, <<"t","e","x","t","/","m","a","r","k","d","o","w","n">>>>,
     <<<<"m","a","r","k","d","o","w","n">>, <<"t","e","x","t","/","m","a","r","k","d","o","w","n">>>>,
     <<<<"c","s","v">>, <<"t","e","x","t","/","c","s","v">>>>,
     <<<<"j","s","o","n">>, <<"a","p","p","l","i","c","a","t","i","o","n","/","j","s","o","n">>>>,
     <<<<"x","m","l">>, <<"a","p","p","l","i","c","a","t","i","o","n","/","x","m","l">>>>,
     <<<<"h","t","m","l">>, <<"t","e","x","t","/","h","t","m","l">>>>,
     <<<<"h","t","m">>, <<"t","e","x","t","/","h","t","m","l">>>>,
     <<<<"p","d","f">>, <<"a","p","p","l","i","c","a","t","i","o","n","/","p","d","f">>>>,
     <<<<"p","n","g">>, <<"i","m","a","g","e","/","p","n","g">>>>,
     <<<<"j","p","g">>, <<"i","m","a","g","e","/","j","p","e","g">>>>,
     <<<<"j","p","e","g">>, <<"i","m","a","g","e","/","j","p","e","g">>>>,
     <<<<"g","i","f">>, <<"i","m","a","g","e","/","g","i","f">>>>,
     <<<<"w","e","b","p">>, <<"i","m","a","g","e","/","w","e","b","p">>>>,
     <<<<"b","m","p">>, <<"i","m","a","g","e","/","b","m","p">>>>,
     <<<<"s","v","g">>, <<"i","m","a","g","e","/","s","v","g","+","x","m","l">>>>,
     <<<<"m","p","3">>, <<"a","u","d","i","o","/","m","p","e","g">>>>,
     <<<<"w","a","v">>, <<"a","u","d","i","o","/","w","a","v">>>>,
     <<<<"o","g","g">>, <<"a","u","d","i","o","/","o","g","g">>>>,
     <<<<"m","p","4">>, <<"v","i","d","e","o","/","m","p","4">>>>,
     <<<<"w","e","b","m">>, <<"v","i","d","e","o","/","w","e","b","m">>>>,
     <<<<"m","o","v">>, <<"v","i","d","e","o","/","q","u","i","c","k","t","i","m","e">>>>,
     <<<<"z","i","p">>, <<"a","p","p","l","i","c","a","t","i","o","n","/","z","i","p">>>>,
     <<<<"t","a","r">>, <<"a","p","p","l","i","c","a","t","i","o","n","/","x","-","t","a","r">>>>,
     <<<<"g","z">>, <<"a","p","p","l","i","c","a","t","i","o","n","/","g","z","i","p">>>>}

OCTET_STREAM == <<"a","p","p","l","i","c","a","t","i","o","n","/","o","c","t","e","t","-","s","t","r","e","a","m">>

\* filename.rsplit('.').next(): the text after the last '.', the whole
\* filename when it has none
LastPiece(filename) ==
    LET dots == {k \in 1..Len(filename) : filename[k] = "."}
    IN  IF dots = {} THEN filename
        ELSE SubSeq(filename, SetMax(dots) + 1, Len(filename))

\* guess_mime_type
guess_mime_type(filename) ==
    LET ext == Fold(LastPiece(filename))
    IN  IF \E e \in MimeTable : e[1] = ext
        THEN (CHOOSE e \in MimeTable : e[1] = ext)[2]
        ELSE OCTET_STREAM

BIN == <<"b","i","n">>

\* Path::new(name).extension().and_then(|e| e.to_str()).unwrap_or("bin") for
\* a name without '/': no extension when the name has no '.' or only a
\* leading one
StoredExt(filename) ==
    LET dots == {k \in 1..Len(filename) : filename[k] = "."}
    IN  IF dots = {} \/ dots = {1} THEN BIN
        ELSE SubSeq(filename, SetMax(dots) + 1, Len(filename))

\* ------------------------------------------------------------------------
\* State
\* ------------------------------------------------------------------------

VARIABLES
    files,      \* base table ftms_files: rowid -> row
    fts,        \* shadow index ftms_fts
    changes,    \* rows changed by the last successful INSERT/UPDATE (sqlite3_changes)
    ret,        \* the last call on the index and what it returned
    disk,       \* the Content Store's directory tree: relative path -> bytes
    tasks,      \* the upload calls: position and locals of each
    issued,     \* how many UUIDs Uuid::new_v4 has handed out
    lock,       \* the call that holds the mutex of the connection, 0 when free
    calls       \* the concurrent calls on the index: position and locals of each

ivars == <<files, fts, changes, ret>>

uvars == <<disk, tasks, issued>>

cvars == <<lock, calls>>

vars == <<files, fts, changes, ret, disk, tasks, issued, lock, calls>>

DB == [files |-> files, fts |-> fts]

\* engine: whether the storage engine carried out the statement of the call (a
\* write can be refused for want of disk space or a lock; reads of the open
\* database are taken to succeed)
Ret(op, args, engine, ok, val) ==
    [op |-> op, args |-> args, engine |-> engine, ok |-> ok, val |-> val]

\* Uuid::new_v4 is taken to return a value it never returned before
Uuid(k) == <<"uuid", k>>

Tasks == 1..MaxUploads

Calls == 1..MaxCalls

\* a call not yet made; seen, counted and paged are the states of the
\* database at the moments the call took the lock and ran its queries
IdleCall ==
    [pc |-> "idle", op |-> "", args |-> <<>>, seen |-> init_schema,
     before |-> EmptyTable, total |-> 0, counted |-> init_schema,
     paged |-> init_schema, ok |-> TRUE, out |-> <<>>]

NoMeta == [session_id |-> None, channel |-> None, tags |-> None]

IdleTask ==
    [pc |-> "idle", filename |-> <<>>, data |-> <<>>, metadata |-> NoMeta,
     id |-> Uuid(0), mime_type |-> <<>>, rel_path |-> <<"", Uuid(0), <<>>>>,
     result |-> None]

Init ==
    /\ files = init_schema.files
    /\ fts = init_schema.fts
    /\ changes = 0
    /\ ret = Ret("new", <<>>, TRUE, TRUE, <<>>)
    /\ disk = [p \in {} |-> <<>>]
    /\ tasks = [t \in Tasks |-> IdleTask]
    /\ issued = 0
    /\ lock = 0
    /\ calls = [c \in Calls |-> IdleCall]

\* FileIndex::insert
insert(record, engine_ok) ==
    LET r == SqlInsert(DB, record, engine_ok)
    IN  IF IsSome(r)
        THEN /\ files' = Unwrap(r).files
             /\ fts' = Unwrap(r).fts
             /\ changes' = 1
             /\ ret' = Ret("insert", <<record>>, engine_ok, TRUE, <<>>)
        ELSE /\ UNCHANGED <<files, fts, changes>>
             /\ ret' = Ret("insert", <<record>>, engine_ok, FALSE, <<>>)

\* FileIndex::update_content
update_content(id, text, description, engine_ok) ==
    LET r == SqlUpdate(DB, id, text, description, engine_ok)
    IN  IF IsSome(r)
        THEN /\ files' = Unwrap(r).db.files
             /\ fts' = Unwrap(r).db.fts
             /\ changes' = Unwrap(r).changes
             /\ ret' = Ret("update_content", <<id, text, description>>, engine_ok, TRUE, <<>>)
        ELSE /\ UNCHANGED <<files, fts, changes>>
             /\ ret' = Ret("update_content", <<id, text, description>>, engine_ok, FALSE, <<>>)

\* FileIndex::get
get(id) ==
    /\ ret' = Ret("get", <<id>>, TRUE, TRUE, QueryGet(DB, id))
    /\ UNCHANGED <<files, fts, changes>>

\* FileIndex::list
list(offset, limit, session_id, mime_prefix) ==
    /\ \E resp \in ListResponses(DB, offset, limit, session_id, mime_prefix) :
          ret' = Ret("list", <<offset, limit, session_id, mime_prefix>>, TRUE, TRUE, resp)
    /\ UNCHANGED <<files, fts, changes>>

\* FileIndex::search
search(query, limit) ==
    /\ \E res \in SearchResults(DB, query, limit) :
          ret' = Ret("search", <<query, limit>>, TRUE, TRUE, res)
    /\ UNCHANGED <<files, fts, changes>>

\* a row leaves the base table (DELETE FROM ftms_files), firing ftms_ad
DeleteRow(rid) ==
    /\ rid \in DOMAIN files
    /\ files' = SqlDelete(DB, rid).files
    /\ fts' = SqlDelete(DB, rid).fts
    /\ changes' = 1
    /\ ret' = Ret("delete", <<rid>>, TRUE, TRUE, <<>>)

\* FileStorage::store: the relative path of the stored file
StorePath(date_dir, file_id, filename) == <<date_dir, file_id, StoredExt(filename)>>

\* tokio::fs::write: creates or truncates the file, then writes the bytes
fs_write(d, path, bytes) ==
    [p \in DOMAIN d \cup {path} |-> IF p = path THEN bytes ELSE d[p]]

\* FileStorage::read: the bytes at the path, an error when there is no file
storage_read(rel_path) ==
    /\ ret' = IF rel_path \in DOMAIN disk
              THEN Ret("read", <<rel_path>>, TRUE, TRUE, disk[rel_path])
              ELSE Ret("read", <<rel_path>>, TRUE, FALSE, <<>>)
    /\ UNCHANGED <<files, fts, changes, disk, tasks, issued>>

\* FileStorage::delete: removes the file if it exists; Ok either way
storage_delete(rel_path) ==
    /\ disk' = [p \in DOMAIN disk \ {rel_path} |-> disk[p]]
    /\ ret' = Ret("delete_file", <<rel_path>>, TRUE, TRUE, <<>>)
    /\ UNCHANGED <<files, fts, changes, tasks, issued>>

\* the first part of FtmsService::upload, up to the return of storage.store:
\* a fresh id, the MIME type, and the write to the Content Store.  io is
\* <<"ok", 0>>, <<"mkdir_failed", 0>> (nothing written) or <<"write_failed", k>>
\* (the write stopped after k bytes); a failure of store ends the upload.
UploadStore(t, filename, data, metadata, date_dir, io) ==
    LET path == StorePath(date_dir, Uuid(issued + 2), filename)
        mine == [tasks[t] EXCEPT !.filename = filename, !.data = data,
                                 !.metadata = metadata, !.id = Uuid(issued + 1),
                                 !.mime_type = guess_mime_type(filename)]
    IN  /\ tasks[t].pc = "idle"
        /\ IF io[1] = "mkdir_failed"
           THEN /\ issued' = issued + 1
                /\ disk' = disk
                /\ tasks' = [tasks EXCEPT ![t] = [mine EXCEPT !.pc = "failed"]]
           ELSE IF io[1] = "write_failed"
           THEN /\ issued' = issued + 2
                /\ disk' = fs_write(disk, path, SubSeq(data, 1, io[2]))
                /\ tasks' = [tasks EXCEPT ![t] = [mine EXCEPT !.pc = "failed"]]
           ELSE /\ issued' = issued + 2
                /\ disk' = fs_write(disk, path, data)
                /\ tasks' = [tasks EXCEPT ![t] =
                                [mine EXCEPT !.pc = "stored", !.rel_path = path]]
        /\ UNCHANGED ivars

\* upload up to the middle of fs::write (mod.rs:42-46, storage.rs:26-40):
\* both UUIDs are drawn, the directory is made, and the file exists with the
\* first `written` bytes, fewer than all of them
store_begin(t, filename, data, metadata, date_dir, mkdir_ok, written) ==
    LET path == StorePath(date_dir, Uuid(issued + 2), filename)
        mine == [tasks[t] EXCEPT !.filename = filename, !.data = data,
                                 !.metadata = metadata, !.id = Uuid(issued + 1),
                                 !.mime_type = guess_mime_type(filename)]
    IN  /\ tasks[t].pc = "idle"
        /\ IF ~mkdir_ok
           THEN /\ issued' = issued + 1
                /\ disk' = disk
                /\ tasks' = [tasks EXCEPT ![t] = [mine EXCEPT !.pc = "failed"]]
           ELSE /\ issued' = issued + 2
                /\ disk' = fs_write(disk, path, SubSeq(data, 1, written))
                /\ tasks' = [tasks EXCEPT ![t] =
                                [mine EXCEPT !.pc = "writing", !.rel_path = path]]
        /\ UNCHANGED ivars

\* fs::write(...).await? returns (storage.rs:40-45): with every byte in the
\* file and the path handed to upload, or with an error that ends the upload
\* and leaves the part already written
store_finish(t, write_ok) ==
    /\ tasks[t].pc = "writing"
    /\ IF write_ok
       THEN /\ disk' = fs_write(disk, tasks[t].rel_path, tasks[t].data)
            /\ tasks' = [tasks EXCEPT ![t].pc = "stored"]
       ELSE /\ disk' = disk
            /\ tasks' = [tasks EXCEPT ![t].pc = "failed"]
    /\ UNCHANGED <<ivars, issued>>

\* the record assembled with text and description in each other's field
UploadRecord_crossed(task, extracted_text, ai_description, now) ==
    FileRecord(task.id, task.filename, task.mime_type, task.rel_path, Len(task.data),
               ai_description, extracted_text, task.metadata.session_id,
               task.metadata.channel, now, task.metadata.tags)

\* the record upload assembles (mod.rs:54-66)
UploadRecord(task, extracted_text, ai_description, now) ==
    FileRecord(task.id, task.filename, task.mime_type, task.rel_path, Len(task.data),
               extracted_text, ai_description, task.metadata.session_id,
               task.metadata.channel, now, task.metadata.tags)

\* the result of the insert ignored
upload_return_always(inserted, record) == Some(record)

\* `self.index.insert(&record)?; Ok(record)`: what upload returns
upload_return(inserted, record) == IF inserted THEN Some(record) ELSE None

\* an upload that does not wait for fs::write before it goes on to the insert
UploadIndex_early(t, now, pdf, engine_ok) ==
    LET task   == tasks[t]
        record == UploadRecord(task, extract_text(task.data, task.mime_type, pdf),
                               describe_media(task.data, task.mime_type, task.filename),
                               now)
        result == upload_return(IsSome(SqlInsert(DB, record, engine_ok)), record)
    IN  /\ task.pc \in {"writing", "stored"}
        /\ IF extract_text_panics(task.data, task.mime_type, pdf)
           THEN /\ tasks' = [tasks EXCEPT ![t].pc = "panicked"]
                /\ UNCHANGED ivars
           ELSE /\ insert(record, engine_ok)
                /\ tasks' = [tasks EXCEPT ![t].pc = IF IsSome(result) THEN "ok" ELSE "failed",
                                          ![t].result = result]
        /\ UNCHANGED <<disk, issued>>

\* the rest of FtmsService::upload, which runs without suspending: derive the
\* content, assemble the record, insert it, return
UploadIndex(t, now, pdf, engine_ok) ==
    LET task   == tasks[t]
        record == UploadRecord(task, extract_text(task.data, task.mime_type, pdf),
                               describe_media(task.data, task.mime_type, task.filename),
                               now)
        result == upload_return(IsSome(SqlInsert(DB, record, engine_ok)), record)
    IN  /\ task.pc = "stored"
        /\ IF extract_text_panics(task.data, task.mime_type, pdf)
           THEN /\ tasks' = [tasks EXCEPT ![t].pc = "panicked"]
                /\ UNCHANGED ivars
           ELSE /\ insert(record, engine_ok)
                /\ tasks' = [tasks EXCEPT ![t].pc = IF IsSome(result) THEN "ok" ELSE "failed",
                                          ![t].result = result]
        /\ UNCHANGED <<disk, issued>>

\* the two derivation calls of upload (mod.rs:49-52) on their own: the
\* extracted text and the description of one input.  Neither function has an
\* Err path; ok is FALSE when the call panics instead of returning.
derive_content(data, mime_type, filename, pdf) ==
    /\ ret' = IF extract_text_panics(data, mime_type, pdf)
              THEN Ret("derive", <<data, mime_type, filename, pdf>>, TRUE, FALSE,
                       [extracted_text |-> None, ai_description |-> None])
              ELSE Ret("derive", <<data, mime_type, filename, pdf>>, TRUE, TRUE,
                       [extracted_text |-> extract_text(data, mime_type, pdf),
                        ai_description |-> describe_media(data, mime_type, filename)])
    /\ UNCHANGED <<files, fts, changes>>

\* a call of guess_mime_type
classify(filename) ==
    /\ ret' = Ret("guess_mime_type", <<filename>>, TRUE, TRUE, guess_mime_type(filename))
    /\ UNCHANGED <<files, fts, changes>>

\* ------------------------------------------------------------------------
\* Inputs
\* ------------------------------------------------------------------------

FN_NOTES == <<"n",".","t","x","t">>

FN_PIC == <<"p",".","p","n","g">>

TEXT_PLAIN == <<"t","e","x","t","/","p","l","a","i","n">>

IMAGE_PNG == <<"i","m","a","g","e","/","p","n","g">>

T_CAT == <<"c","a","t">>

T_DOG == <<"d","o","g">>

T_MIX == <<"a"," ","C","a","t"," ","N","O","T">>

T_TAG == <<"t","a","g">>

Ids == {<<"id", 1>>, <<"id", 2>>}

TODAY == "2026/11/04"

\* records offered to insert: a text file with every optional field present,
\* an image with every optional field but the description absent, and a file
\* whose size does not fit a signed 64-bit integer
InsertInputs ==
    {FileRecord(i, FN_NOTES, TEXT_PLAIN, <<TODAY, <<"f", 1>>, <<"t","x","t">>>>, 3,
                Some(T_CAT), None, Some("s1"), Some("chat"), 1, Some(T_TAG)) : i \in Ids}
    \cup
    {FileRecord(i, FN_PIC, IMAGE_PNG, <<TODAY, <<"f", 2>>, <<"p","n","g">>>>, I64_MAX,
                None, Some(T_MIX), None, None, 2, None) : i \in Ids}
    \cup
    {FileRecord(i, FN_NOTES, TEXT_PLAIN, <<TODAY, <<"f", 3>>, <<"t","x","t">>>>, USIZE_MAX,
                Some(T_DOG), None, None, None, 1, None) : i \in Ids}

\* an id that is never inserted
MissingId == <<"id", 0>>

GetIds == Ids \cup {MissingId}

UpdateIds == {<<"id", 1>>, MissingId}

UpdateTexts == {None, Some(T_DOG)}

UpdateDescs == {None, Some(T_MIX)}

\* queries: an indexed word in two spellings, a word of the filename, an
\* FTS5 operator that is also a word of T_MIX, an unterminated string
Queries == {T_CAT, <<"C","a","t">>, <<"t","x","t">>, <<"N","O","T">>, <<"\"">>}

\* offsets and limits: the ordinary ones and the largest usize
Args == 0..MaxArg \cup {USIZE_MAX}

Room == Cardinality(DOMAIN files) < MaxRows /\ NewRowid(DB) <= MaxRowid

\* ------------------------------------------------------------------------
\* The index alone: every method of FileIndex, called in any order
\* ------------------------------------------------------------------------

DoInsert == /\ \E r \in InsertInputs, e \in BOOLEAN :
                  /\ Room \/ ~IsSome(SqlInsert(DB, r, e))
                  /\ insert(r, e)
            /\ UNCHANGED <<uvars, cvars>>

DoUpdate == /\ \E i \in UpdateIds, t \in UpdateTexts, d \in UpdateDescs, e \in BOOLEAN :
                  update_content(i, t, d, e)
            /\ UNCHANGED <<uvars, cvars>>

DoGet == (\E i \in GetIds : get(i)) /\ UNCHANGED <<uvars, cvars>>

DoSearch == (\E q \in Queries, l \in Args : search(q, l)) /\ UNCHANGED <<uvars, cvars>>

DoList == /\ \E l \in {1, USIZE_MAX}, p \in {None, Some(<<"t","e","x","t","/">>)} :
                list(0, l, None, p)
          /\ UNCHANGED <<uvars, cvars>>

DoDelete == (\E rid \in DOMAIN files : DeleteRow(rid)) /\ UNCHANGED <<uvars, cvars>>

Next == DoInsert \/ DoUpdate \/ DoGet \/ DoSearch \/ DoList

Spec == Init /\ [][Next]_vars

\* the writes alone, with rows also leaving the table
NextTrig == DoInsert \/ DoUpdate \/ DoDelete \/ DoGet

SpecTrig == Init /\ [][NextTrig]_vars

\* ------------------------------------------------------------------------
\* The upload pipeline next to direct calls on the index
\* ------------------------------------------------------------------------

\* "cat" in a text file; three bytes, one of them no UTF-8, in an image
UploadInputs ==
    {[filename |-> FN_NOTES, data |-> <<99, 97, 116>>,
      metadata |-> [session_id |-> Some("s1"), channel |-> None, tags |-> Some(T_TAG)]],
     [filename |-> FN_PIC, data |-> <<0, 255, 16>>, metadata |-> NoMeta]}

StoreOutcomes(data) ==
    {<<"ok", 0>>, <<"mkdir_failed", 0>>} \cup {<<"write_failed", Len(data) - 1>>}

\* the upload calls are alike, so they are started in the order of their numbers
DoUploadStore ==
    \E t \in Tasks, u \in UploadInputs :
       \E io \in StoreOutcomes(u.data) :
          /\ \A v \in Tasks : v < t => tasks[v].pc # "idle"
          /\ UploadStore(t, u.filename, u.data, u.metadata, TODAY, io)
          /\ UNCHANGED cvars

DoUploadIndex ==
    \E t \in Tasks, e \in BOOLEAN :
       /\ Room \/ ~e
       /\ UploadIndex(t, 3, "no_feature", e)
       /\ UNCHANGED cvars

UpInsert == /\ \E r \in {x \in InsertInputs : x.id = <<"id", 1>> /\ x.file_size = 3}, e \in BOOLEAN :
                  /\ Room \/ ~IsSome(SqlInsert(DB, r, e))
                  /\ insert(r, e)
            /\ UNCHANGED <<uvars, cvars>>

UpUpdate == update_content(Uuid(1), Some(T_DOG), None, TRUE) /\ UNCHANGED <<uvars, cvars>>

UpGet == (\E i \in {Uuid(1), MissingId} : get(i)) /\ UNCHANGED <<uvars, cvars>>

UpSearch == search(T_CAT, 1) /\ UNCHANGED <<uvars, cvars>>

UpList == list(0, 1, None, None) /\ UNCHANGED <<uvars, cvars>>

NextUp == DoUploadStore \/ DoUploadIndex \/ UpInsert \/ UpUpdate \/ UpGet \/ UpSearch \/ UpList

SpecUp == Init /\ [][NextUp]_vars

\* ------------------------------------------------------------------------
\* Listing: three records that differ in session, MIME type and upload time
\* ------------------------------------------------------------------------

\* a text file of session s1 uploaded at either time, an image of session s1
\* uploaded last, a text file without session uploaded first
ListInputs ==
    {FileRecord(<<"id", 1>>, FN_NOTES, TEXT_PLAIN, <<TODAY, <<"f", 1>>, <<"t","x","t">>>>, 3,
                Some(T_CAT), None, Some("s1"), Some("chat"), u, Some(T_TAG)) : u \in {1, 2}}
    \cup
    {FileRecord(<<"id", 2>>, FN_PIC, IMAGE_PNG, <<TODAY, <<"f", 2>>, <<"p","n","g">>>>, 3,
                None, Some(T_MIX), Some("s1"), None, 2, None),
     FileRecord(<<"id", 3>>, FN_NOTES, TEXT_PLAIN, <<TODAY, <<"f", 3>>, <<"t","x","t">>>>, 3,
                Some(T_DOG), None, None, None, 1, None)}

\* MIME prefixes passed to list: a prefix as the spec means it, the same in
\* upper case, and one that holds the LIKE wildcard %
ListPrefixes ==
    {None, Some(<<"t","e","x","t","/">>), Some(<<"T","E","X","T","/">>), Some(<<"%","/","p">>)}

ListSessions == {None, Some("s1")}

ListInsert ==
    /\ Cardinality(DOMAIN files) <= MaxRows
    /\ \E rec \in ListInputs : insert(rec, TRUE)
    /\ UNCHANGED <<uvars, cvars>>

ListList ==
    /\ \E o \in Args, l \in Args, sid \in ListSessions, p \in ListPrefixes :
          list(o, l, sid, p)
    /\ UNCHANGED <<uvars, cvars>>

NextList == ListInsert \/ ListList

SpecList == Init /\ [][NextList]_vars

\* ------------------------------------------------------------------------
\* The Content Store: uploads next to reads and deletes of stored files
\* ------------------------------------------------------------------------

\* the paths a caller knows: those of the files in the store and the paths
\* the uploads were given, among them paths that hold no file
KnownPaths == DOMAIN disk \cup {tasks[t].rel_path : t \in Tasks}

DoStorageRead == (\E p \in KnownPaths : storage_read(p)) /\ UNCHANGED cvars

DoStorageDelete == (\E p \in KnownPaths : storage_delete(p)) /\ UNCHANGED cvars

NextStore == DoUploadStore \/ DoUploadIndex \/ DoStorageRead \/ DoStorageDelete

SpecStore == Init /\ [][NextStore]_vars

\* ------------------------------------------------------------------------
\* Concurrent uploads with the write of the file in two steps, and the
\* readers of the index in between
\* ------------------------------------------------------------------------

NextIngest ==
    \/ \E t \in Tasks, u \in UploadInputs, m \in BOOLEAN :
        \E w \in 0..(Len(u.data) - 1) :
          /\ \A v \in Tasks : v < t => tasks[v].pc # "idle"
          /\ store_begin(t, u.filename, u.data, u.metadata, TODAY, m, w)
          /\ UNCHANGED cvars
    \/ \E t \in Tasks, w \in BOOLEAN : store_finish(t, w) /\ UNCHANGED cvars
    \/ DoUploadIndex
    \/ (\E t \in Tasks : get(tasks[t].id)) /\ UNCHANGED <<uvars, cvars>>
    \/ UpSearch
    \/ list(0, MaxRows, None, None) /\ UNCHANGED <<uvars, cvars>>

SpecIngest == Init /\ [][NextIngest]_vars

\* ------------------------------------------------------------------------
\* Content derivation and classification as functions of their inputs: the
\* initial state holds the arguments of one call, the step makes the call
\* ------------------------------------------------------------------------

\* the cap the specification names, 100 000 bytes, at the scale of the model
SPEC_TEXT_CAP == 100000 \div TextScale

\* n bytes b
Rep(n, b) == [k \in 1..n |-> b]

\* file contents: empty, blank, "cat", " c ", undecodable, and texts of "a"
\* and of blanks around the two caps; 255 decodes to U+FFFD (three bytes)
DeriveData ==
    {<<>>, <<32>>, <<32, 10, 9>>, <<99, 97, 116>>, <<32, 99, 32>>, <<255>>, <<0, 255, 16>>,
     Rep(SPEC_TEXT_CAP, 97), Rep(SPEC_TEXT_CAP + 1, 97),
     Rep(MAX_TEXT_LEN, 97), Rep(MAX_TEXT_LEN + 1, 97),
     Rep(MAX_TEXT_LEN - 1, 97) \o <<255>>,
     Rep(MAX_TEXT_LEN - 3, 97) \o <<255, 97>>,
     Rep(MAX_TEXT_LEN, 32) \o <<97>>,
     Rep(MAX_TEXT_LEN + 1, 32)}

\* MIME types: the text types, PDF, media types, types extract_text does not
\* know, and a media type in upper case
DeriveMimes ==
    TextTypes \cup
    {APPLICATION_PDF, IMAGE_PNG, <<"a","u","d","i","o","/","w","a","v">>,
     <<"v","i","d","e","o","/","m","p","4">>, OCTET_STREAM,
     <<"a","p","p","l","i","c","a","t","i","o","n","/","z","i","p">>,
     <<"I","M","A","G","E","/","P","N","G">>}

\* builds without the rag-pdf feature, and with it: extraction failing or
\* returning the decoded bytes
PdfModes == {"no_feature", "failed", "extracted"}

\* filenames: known extensions in both cases, an unknown one, two dots, a
\* trailing dot, a leading dot, and names without a dot
ClassifyNames ==
    {FN_NOTES, FN_PIC, <<"A",".","T","X","T">>, <<"a",".","P","n","g">>,
     <<"a",".","x","y","z">>, <<"a",".","t","a","r",".","g","z">>,
     <<"t","x","t",".","b","a","k">>, <<"a",".">>, <<".","p","d","f">>, <<".">>,
     <<>>, <<"a">>, <<"r","e","a","d","m","e">>, <<"t","x","t">>, <<"P","D","F">>,
     <<"m","p","3">>, <<"a",".","m","d">>, <<"a",".","H","T","M">>,
     <<"a",".","j","p","e","g">>, <<"a",".","m","o","v">>}

InitDerive ==
    /\ files = init_schema.files
    /\ fts = init_schema.fts
    /\ changes = 0
    /\ disk = [p \in {} |-> <<>>]
    /\ tasks = [t \in Tasks |-> IdleTask]
    /\ issued = 0
    /\ lock = 0
    /\ calls = [c \in Calls |-> IdleCall]
    /\ \/ \E d \in DeriveData, m \in DeriveMimes, pdf \in PdfModes :
             ret = Ret("call derive", <<d, m, FN_PIC, pdf>>, TRUE, TRUE, <<>>)
       \/ \E f \in ClassifyNames :
             ret = Ret("call guess_mime_type", <<f>>, TRUE, TRUE, <<>>)

DoDerive ==
    /\ ret.op = "call derive"
    /\ derive_content(ret.args[1], ret.args[2], ret.args[3], ret.args[4])
    /\ UNCHANGED <<uvars, cvars>>

DoClassify ==
    /\ ret.op = "call guess_mime_type"
    /\ classify(ret.args[1])
    /\ UNCHANGED <<uvars, cvars>>

NextDerive == DoDerive \/ DoClassify

SpecDerive == InitDerive /\ [][NextDerive]_vars

\* ------------------------------------------------------------------------
\* Concurrent calls on one FileIndex.  Every method starts with
\* `let conn = self.conn.lock();` and the guard lives to the end of the body.
\* A statement is taken in the steps the engine makes: the base row, then the
\* trigger; the two columns of the UPDATE one after the other.  The steps of
\* a body are enabled by the position of their call alone, which is where the
\* code is once lock() has returned.
\* ------------------------------------------------------------------------

\* the calls that the threads make
ConcInputs ==
    {[op |-> "insert", args |-> <<r>>] :
        r \in {x \in InsertInputs : \/ x.id = <<"id", 1>> /\ x.file_size = 3
                                    \/ x.id = <<"id", 2>> /\ x.file_size = I64_MAX}}
    \cup {[op |-> "update_content", args |-> <<<<"id", 1>>, Some(T_DOG), Some(T_MIX)>>],
          [op |-> "get", args |-> <<<<"id", 1>>>>],
          [op |-> "list", args |-> <<0, MaxRows, None, None>>],
          [op |-> "search", args |-> <<T_CAT, 1>>]}

\* a thread enters a method of the index
call_begin(c, inp) ==
    /\ calls[c].pc = "idle"
    /\ calls' = [calls EXCEPT ![c] = [IdleCall EXCEPT !.pc = "waiting",
                                                      !.op = inp.op,
                                                      !.args = inp.args]]
    /\ UNCHANGED <<files, fts, changes, ret, uvars, lock>>

\* a lock() that returns although another call holds the mutex
lock_acquire_unguarded(c) ==
    /\ calls[c].pc = "waiting"
    /\ lock' = c
    /\ calls' = [calls EXCEPT ![c].pc = "locked", ![c].seen = DB]
    /\ UNCHANGED <<files, fts, changes, ret, uvars>>

\* self.conn.lock() returns: the mutex was free and the call now holds it
lock_acquire(c) ==
    /\ calls[c].pc = "waiting"
    /\ lock = 0
    /\ lock' = c
    /\ calls' = [calls EXCEPT ![c].pc = "locked", ![c].seen = DB]
    /\ UNCHANGED <<files, fts, changes, ret, uvars>>

\* insert, first step of the statement: the row enters ftms_files, or the
\* statement fails on the PRIMARY KEY and the body ends with Err
insert_row(c) ==
    /\ calls[c].pc = "locked" /\ calls[c].op = "insert"
    /\ LET record == calls[c].args[1]
           r == SqlInsert([files |-> files, fts |-> EmptyFts], record, TRUE)
       IN  IF IsSome(r)
           THEN /\ files' = Unwrap(r).files
                /\ calls' = [calls EXCEPT ![c].pc = "row", ![c].before = files]
           ELSE /\ files' = files
                /\ calls' = [calls EXCEPT ![c].pc = "body_done", ![c].ok = FALSE]
    /\ UNCHANGED <<fts, changes, ret, uvars, lock>>

\* insert, second step: trigger ftms_ai adds the document of the new row
insert_trigger(c) ==
    /\ calls[c].pc = "row"
    /\ LET rid == CHOOSE r \in DOMAIN files : r \notin DOMAIN calls[c].before
       IN  fts' = ftms_ai(fts, rid, files[rid])
    /\ calls' = [calls EXCEPT ![c].pc = "body_done", ![c].ok = TRUE]
    /\ UNCHANGED <<files, changes, ret, uvars, lock>>

\* update_content, first step: SET extracted_text = ?1 on the rows of the id
update_text(c) ==
    /\ calls[c].pc = "locked" /\ calls[c].op = "update_content"
    /\ files' = [r \in DOMAIN files |->
                    IF files[r].id = calls[c].args[1]
                    THEN [files[r] EXCEPT !.extracted_text = calls[c].args[2]]
                    ELSE files[r]]
    /\ calls' = [calls EXCEPT ![c].pc = "text", ![c].before = files]
    /\ UNCHANGED <<fts, changes, ret, uvars, lock>>

\* update_content, second step: SET ai_description = ?2 on the same rows
update_desc(c) ==
    /\ calls[c].pc = "text"
    /\ files' = [r \in DOMAIN files |->
                    IF r \in DOMAIN calls[c].before /\ files[r].id = calls[c].args[1]
                    THEN [files[r] EXCEPT !.ai_description = calls[c].args[3]]
                    ELSE files[r]]
    /\ calls' = [calls EXCEPT ![c].pc = "desc"]
    /\ UNCHANGED <<fts, changes, ret, uvars, lock>>

\* update_content, third step: trigger ftms_au for every row of the statement
update_trigger(c) ==
    /\ calls[c].pc = "desc"
    /\ LET hit == {r \in DOMAIN calls[c].before : calls[c].before[r].id = calls[c].args[1]}
       IN  fts' = FireUpdate(fts, calls[c].before, files, hit)
    /\ calls' = [calls EXCEPT ![c].pc = "body_done", ![c].ok = TRUE]
    /\ UNCHANGED <<files, changes, ret, uvars, lock>>

\* the body of get: one query
get_step(c) ==
    /\ calls[c].pc = "locked" /\ calls[c].op = "get"
    /\ calls' = [calls EXCEPT ![c].pc = "body_done",
                              ![c].out = QueryGet(DB, calls[c].args[1])]
    /\ UNCHANGED <<files, fts, changes, ret, uvars, lock>>

\* the body of search: one query
search_step(c) ==
    /\ calls[c].pc = "locked" /\ calls[c].op = "search"
    /\ \E res \in SearchResults(DB, calls[c].args[1], calls[c].args[2]) :
          calls' = [calls EXCEPT ![c].pc = "body_done", ![c].out = res]
    /\ UNCHANGED <<files, fts, changes, ret, uvars, lock>>

\* a list whose guard is dropped once the count is taken
list_count_unlocks(c) ==
    /\ calls[c].pc = "locked" /\ calls[c].op = "list"
    /\ LET a == calls[c].args
           b == build_filter(a[3], a[4], a[1], a[2])
       IN  calls' = [calls EXCEPT ![c].pc = "counted", ![c].counted = DB,
                        ![c].total = QueryCount(DB, b.where_sql, b.count_params)]
    /\ lock' = 0
    /\ UNCHANGED <<files, fts, changes, ret, uvars>>

\* list, first query: SELECT COUNT(*)
list_count(c) ==
    /\ calls[c].pc = "locked" /\ calls[c].op = "list"
    /\ LET a == calls[c].args
           b == build_filter(a[3], a[4], a[1], a[2])
       IN  calls' = [calls EXCEPT ![c].pc = "counted", ![c].counted = DB,
                        ![c].total = QueryCount(DB, b.where_sql, b.count_params)]
    /\ lock' = lock
    /\ UNCHANGED <<files, fts, changes, ret, uvars>>

\* list, second query: the page, and the response built from both
list_page(c) ==
    /\ calls[c].pc = "counted"
    /\ LET a == calls[c].args
           b == build_filter(a[3], a[4], a[1], a[2])
       IN  \E page \in QueryPage(DB, b.where_sql, b.query_params) :
              calls' = [calls EXCEPT ![c].pc = "body_done", ![c].paged = DB,
                           ![c].out = [files |-> page, total |-> calls[c].total,
                                       offset |-> a[1], limit |-> a[2]]]
    /\ UNCHANGED <<files, fts, changes, ret, uvars, lock>>

\* the body returns and the guard is dropped; the thread is free to make
\* its next call
lock_release(c) ==
    /\ calls[c].pc = "body_done"
    /\ lock' = 0
    /\ calls' = [calls EXCEPT ![c] = IdleCall]
    /\ UNCHANGED <<files, fts, changes, ret, uvars>>

NextConc ==
    \E c \in Calls :
        \/ \E inp \in ConcInputs : call_begin(c, inp)
        \/ lock_acquire(c)
        \/ insert_row(c) \/ insert_trigger(c)
        \/ update_text(c) \/ update_desc(c) \/ update_trigger(c)
        \/ get_step(c) \/ search_step(c)
        \/ list_count(c) \/ list_page(c)
        \/ lock_release(c)

SpecConc == Init /\ [][NextConc]_vars

\* ------------------------------------------------------------------------
\* Properties
\* ------------------------------------------------------------------------

\* C1: in every reachable state the shadow index holds exactly one document
\* per base-table row, keyed by that row's rowid, and its postings are exactly
\* those of the rows' current filename, extracted_text, ai_description and
\* tags: no row without a document, no document or posting without its row.
C1_ShadowInLockstep ==
    /\ fts.docs = DOMAIN files
    /\ fts.postings = UNION {Postings(r, FtsValues(files[r])) : r \in DOMAIN files}

\* a content update has just rewritten a row that outlived the deletion of
\* the row inserted before it
C1_Witness ==
    /\ ret.op = "update_content" /\ ret.ok /\ changes = 1
    /\ DOMAIN files = {2}
    /\ files[2].extracted_text = Some(T_DOG)

\* ids of the records of a result vector
IdsOf(seq) == {seq[k].id : k \in 1..Len(seq)}

\* the tokens under which a row is indexed
Terms(row) == UNION {Range(ColTokens(FtsValues(row)[c])) : c \in FtsCols}

\* rows indexed under the (single-token) query
RowsWithTerm(query) == {r \in DOMAIN files : query \in Terms(files[r])}

\* the limit of a search does not cut its result short
LimitAdmits(query, limit) ==
    AsI64(limit) < 0 \/ AsI64(limit) >= Cardinality(RowsWithTerm(query))

\* C2 (as amended): a search whose limit is at least the number of rows
\* matching its query returns every row that has the query as a term of its
\* filename, extracted_text, ai_description or tags, so also a row just
\* inserted with it; and no search, whatever its limit, returns a row that
\* does not have the words of the query among the terms of its current
\* fields, so a row whose term a content update removed is no longer returned.
C2_SearchFollowsContent ==
    ret.op = "search" =>
        \A r \in DOMAIN files :
            /\ (ret.args[1] \in Terms(files[r]) /\ LimitAdmits(ret.args[1], ret.args[2]))
                  => files[r].id \in IdsOf(ret.val)
            /\ files[r].id \in IdsOf(ret.val)
                  => /\ TokenSeq(ret.args[1]) # <<>>
                     /\ Range(TokenSeq(ret.args[1])) \subseteq Terms(files[r])

\* C2 as stated: every search for a term of a row returns the row
C2_Original ==
    ret.op = "search" =>
        \A r \in DOMAIN files :
            ret.args[1] \in Terms(files[r]) => files[r].id \in IdsOf(ret.val)

\* a search for "cat" after the text of row id 1, inserted as "cat", was
\* updated to "dog": that row is not returned, the other row is
C2_Witness ==
    /\ ret.op = "search" /\ ret.args[1] = T_CAT
    /\ \E r \in DOMAIN files :
          /\ files[r].id = <<"id", 1>>
          /\ files[r].tags = Some(T_TAG)
          /\ files[r].extracted_text = Some(T_DOG)
          /\ T_CAT \notin Terms(files[r])
    /\ IdsOf(ret.val) = {<<"id", 2>>}

\* C3: a get that directly follows a successful insert(record) and asks for
\* record.id returns a record equal to the inserted one in all eleven
\* fields, absent optional fields staying absent.
C3_GetReturnsInserted ==
    [][(ret.op = "insert" /\ ret.ok /\ ret'.op = "get" /\ ret'.args[1] = ret.args[1].id)
          => ret'.val = Some(ret.args[1])]_vars

\* a get has returned the inserted image record, whose text, session,
\* channel and tags are absent and whose size is the largest that fits
C3_Witness ==
    /\ ret.op = "get" /\ IsSome(ret.val)
    /\ Unwrap(ret.val).file_size = I64_MAX
    /\ Unwrap(ret.val).extracted_text = None
    /\ Unwrap(ret.val).ai_description = Some(T_MIX)
    /\ Unwrap(ret.val).session_id = None
    /\ Unwrap(ret.val).channel = None
    /\ Unwrap(ret.val).tags = None

\* the fields of a row that no operation may change
Immutable(row) ==
    <<row.id, row.filename, row.mime_type, row.file_path, row.file_size,
      row.session_id, row.channel, row.uploaded_at, row.tags>>

\* C4: a successful update_content(id, t, d) sets extracted_text to t and
\* ai_description to d on the row with that id (an absent value replaces a
\* present one) and leaves every other field of it and every other row as it
\* was; and no operation of the index changes the other nine fields of an
\* existing row.
C4_UpdateFrame ==
    [][/\ (ret'.op = "update_content" /\ ret'.ok)
            => /\ DOMAIN files' = DOMAIN files
               /\ \A r \in DOMAIN files :
                     files'[r] = IF files[r].id = ret'.args[1]
                                 THEN [files[r] EXCEPT !.extracted_text = ret'.args[2],
                                                       !.ai_description = ret'.args[3]]
                                 ELSE files[r]
       /\ \A r \in DOMAIN files :
             r \in DOMAIN files' /\ Immutable(files'[r]) = Immutable(files[r])]_vars

\* update_content(id 1, None, description) has just cleared the text "cat"
\* of row id 1 while another row is in the table
C4_Witness ==
    /\ ret.op = "update_content" /\ ret.ok /\ changes = 1
    /\ ret.args = <<<<"id", 1>>, None, Some(T_MIX)>>
    /\ Cardinality(DOMAIN files) = 2
    /\ \E r \in DOMAIN files :
          /\ files[r].id = <<"id", 1>> /\ files[r].tags = Some(T_TAG)
          /\ files[r].extracted_text = None /\ files[r].ai_description = Some(T_MIX)

\* C7: an insert whose id is already in the base table fails and leaves the
\* base table and the shadow index exactly as they were.
C7_DuplicateInsertRefused ==
    [][(ret'.op = "insert" /\ RowidOf(DB, ret'.args[1].id) # {})
          => ~ret'.ok /\ files' = files /\ fts' = fts]_vars

\* an insert of a record that fits, with the engine working, was refused
\* because a row with other content holds its id
C7_Witness ==
    /\ ret.op = "insert" /\ ~ret.ok /\ ret.engine
    /\ IsSome(ToSqlU64(ret.args[1].file_size))
    /\ \E r \in DOMAIN files :
          files[r].id = ret.args[1].id /\ files[r].filename # ret.args[1].filename

\* C8: update_content on an id that is not in the base table, the engine
\* carrying the statement out, returns success, changes zero rows, creates no
\* row and leaves the base table and the shadow index unchanged.
C8_UpdateOfMissingId ==
    [][(ret'.op = "update_content" /\ ret'.engine /\ RowidOf(DB, ret'.args[1]) = {})
          => ret'.ok /\ changes' = 0 /\ files' = files /\ fts' = fts]_vars

\* update_content of the id that is never inserted has returned success on
\* a table that holds rows
C8_Witness ==
    /\ ret.op = "update_content" /\ ret.ok /\ ret.args[1] = MissingId
    /\ changes = 0
    /\ DOMAIN files # {}

\* the rows that satisfy every supplied filter of list: session_id equal to
\* the given value and mime_type beginning with the given prefix
Filtered(session_id, mime_prefix) ==
    {r \in DOMAIN files :
        /\ IsSome(session_id) => files[r].session_id = session_id
        /\ IsSome(mime_prefix) => starts_with(files[r].mime_type, Unwrap(mime_prefix))}

\* elements offset .. offset+limit-1 (counted from 0) of a sequence
PageOf(seq, offset, limit) ==
    [k \in 1..Max(0, Min(limit, Len(seq) - offset)) |-> seq[offset + k]]

\* C5: the files of a list response are the elements at positions
\* offset .. offset+limit-1 of the rows that satisfy every supplied filter
\* (session_id equal, mime_type beginning with the prefix), taken in
\* descending uploaded_at order.
C5_ListPage ==
    ret.op = "list" =>
        \E f \in OrderedDesc(DB, Filtered(ret.args[3], ret.args[4])) :
            ret.val.files =
                PageOf([k \in DOMAIN f |-> row_to_record(files[f[k]])],
                       ret.args[1], ret.args[2])

\* C6: the total of a list response is the number of rows the filters of the
\* call select, whatever offset and limit are, and the number of files is
\* min(limit, max(0, total - offset)).
C6_ListTotal ==
    ret.op = "list" =>
        LET b == build_filter(ret.args[3], ret.args[4], ret.args[1], ret.args[2])
        IN  /\ ret.val.total = QueryCount(DB, b.where_sql, b.count_params)
            /\ Len(ret.val.files) =
                   Min(ret.args[2], Max(0, ret.val.total - ret.args[1]))

\* C9: every step of insert, update_content, get, list, search and upload
\* leaves each row of the base table retrievable by its id, so a record once
\* inserted is found by get in every later state; and every get succeeds,
\* returning the record with the requested id when a row has it and the
\* not-found value when none has.
C9_AlwaysRetrievable ==
    [][/\ \A r \in DOMAIN files :
             /\ IsSome(QueryGet(DB', files[r].id))
             /\ Unwrap(QueryGet(DB', files[r].id)).id = files[r].id
       /\ ret'.op = "get"
             => /\ ret'.ok
                /\ IsSome(ret'.val) <=> RowidOf(DB, ret'.args[1]) # {}
                /\ IsSome(ret'.val) => Unwrap(ret'.val).id = ret'.args[1]]_vars

\* get has returned the record of the first upload after its text was
\* replaced by update_content and a second row entered the table
C9_Witness ==
    /\ ret.op = "get" /\ ret.args[1] = Uuid(1) /\ IsSome(ret.val)
    /\ Unwrap(ret.val).extracted_text = Some(T_DOG)
    /\ tasks[1].pc = "ok"
    /\ Cardinality(DOMAIN files) = 2

\* C10: a row with the id of an upload call is in the index exactly when the
\* call has returned success, and then the call returned that record; a call
\* that failed, at the Content Store or at the insert, returned no record and
\* has no row; and a step in which the Content Store fails leaves the base
\* table and the shadow index unchanged.
C10_NoPartialSuccess ==
    [][/\ \A t \in Tasks :
             /\ RowidOf(DB', tasks'[t].id) # {} <=> tasks'[t].pc = "ok"
             /\ IsSome(tasks'[t].result) <=> tasks'[t].pc = "ok"
             /\ tasks'[t].pc = "ok" =>
                   Immutable(Unwrap(QueryGet(DB', tasks'[t].id)))
                       = Immutable(Unwrap(tasks'[t].result))
       /\ (\E t \in Tasks : tasks[t].pc = "idle" /\ tasks'[t].pc = "failed")
             => files' = files /\ fts' = fts]_vars

\* the first upload failed at the insert with its file whole in the Content
\* Store, the second failed at the Content Store with part of its file
\* written; neither has a row, while a directly inserted row is in the index
C10_Witness ==
    /\ tasks[1].pc = "failed"
    /\ tasks[1].rel_path \in DOMAIN disk /\ disk[tasks[1].rel_path] = tasks[1].data
    /\ tasks[2].pc = "failed"
    /\ tasks[2].rel_path \notin DOMAIN disk
    /\ \E p \in DOMAIN disk : Len(disk[p]) < Len(tasks[2].data)
    /\ DOMAIN files # {}
    /\ \A t \in Tasks : QueryGet(DB, tasks[t].id) = None

\* C11: the record a successful upload returns has mime_type =
\* guess_mime_type(filename), file_size = the number of bytes, file_path = the
\* path the Content Store returned (where the bytes now are), extracted_text
\* and ai_description as extract_text and describe_media compute them, and
\* session_id, channel and tags of the metadata; and a get of its id that
\* directly follows the upload returns a record equal to it.
C11_UploadRecordFields ==
    [][/\ \A t \in Tasks :
             tasks'[t].pc = "ok" =>
                LET k == tasks'[t]
                    r == Unwrap(k.result)
                IN  /\ r.id = k.id
                    /\ r.filename = k.filename
                    /\ r.mime_type = guess_mime_type(k.filename)
                    /\ r.file_size = Len(k.data)
                    /\ r.file_path = k.rel_path
                    /\ r.file_path \in DOMAIN disk' /\ disk'[r.file_path] = k.data
                    /\ r.extracted_text = extract_text(k.data, r.mime_type, "no_feature")
                    /\ r.ai_description = describe_media(k.data, r.mime_type, k.filename)
                    /\ r.session_id = k.metadata.session_id
                    /\ r.channel = k.metadata.channel
                    /\ r.tags = k.metadata.tags
       /\ \A t \in Tasks :
             (/\ tasks[t].pc = "ok" /\ ret.op = "insert" /\ ret.ok
              /\ ret.args[1] = Unwrap(tasks[t].result)
              /\ ret'.op = "get" /\ ret'.args[1] = tasks[t].id)
                => ret'.val = tasks[t].result]_vars

\* a get has returned the record of the uploaded image p.png: no text, a
\* description, three bytes, no metadata
C11_Witness ==
    /\ ret.op = "get" /\ IsSome(ret.val)
    /\ tasks[1].pc = "ok" /\ tasks[1].filename = FN_PIC
    /\ ret.val = tasks[1].result
    /\ Unwrap(ret.val).mime_type = IMAGE_PNG
    /\ Unwrap(ret.val).extracted_text = None
    /\ IsSome(Unwrap(ret.val).ai_description)
    /\ Unwrap(ret.val).file_size = 3

\* the text that extract_text decodes from the bytes of a text MIME type
Decoded(data) == from_utf8_lossy(data)

\* C12: for every text MIME type, extract_text returns the decoded content
\* verbatim when it is at most 100 000 bytes long and exactly its first
\* 100 000 bytes when it is longer, so never more than 100 000 bytes (blank
\* content, which C13 speaks of, set aside).
C12_TextCap ==
    (ret.op = "derive" /\ ret.args[2] \in TextTypes /\ ~IsBlank(Decoded(ret.args[1])))
        => /\ ret.ok
           /\ IsSome(ret.val.extracted_text)
           /\ ByteLen(Unwrap(ret.val.extracted_text)) <= SPEC_TEXT_CAP
           /\ ret.val.extracted_text =
                 IF ByteLen(Decoded(ret.args[1])) <= SPEC_TEXT_CAP
                 THEN Some(Decoded(ret.args[1]))
                 ELSE Some(SubSeq(Decoded(ret.args[1]), 1,
                                  CharsWithin(Decoded(ret.args[1]), SPEC_TEXT_CAP)))

\* C13: extract_text returns the absent value for every input whose decoded
\* text is empty or all whitespace (text types, and other types whose bytes
\* are valid UTF-8; PDF set aside), and never returns a present value that is
\* empty or all whitespace.
C13_NoBlankText ==
    (ret.op = "derive" /\ ret.ok)
        => /\ (/\ ret.args[2] # APPLICATION_PDF
               /\ IF ret.args[2] \in TextTypes THEN IsBlank(Decoded(ret.args[1]))
                  ELSE /\ IsSome(from_utf8(ret.args[1]))
                       /\ IsBlank(Unwrap(from_utf8(ret.args[1]))))
                 => ret.val.extracted_text = None
           /\ IsSome(ret.val.extracted_text)
                 => ~IsBlank(Unwrap(ret.val.extracted_text))

\* C14: for every MIME type and input, extract_text and describe_media never
\* both return a value: an image/, audio/ or video/ type gets a description
\* and no text, every other type gets no description.
C14_TextOrDescription ==
    (ret.op = "derive" /\ ret.ok)
        => /\ ~(IsSome(ret.val.extracted_text) /\ IsSome(ret.val.ai_description))
           /\ IsMedia(ret.args[2])
                 => ret.val.extracted_text = None /\ IsSome(ret.val.ai_description)
           /\ ~IsMedia(ret.args[2]) => ret.val.ai_description = None

\* the bytes "cat", which decode as text, derived under the type image/png:
\* a description and no text
C14_Witness ==
    /\ ret.op = "derive" /\ ret.ok
    /\ ret.args[1] = <<99, 97, 116>> /\ ret.args[2] = IMAGE_PNG
    /\ ret.val.extracted_text = None
    /\ IsSome(ret.val.ai_description)

\* the extension as the specification defines it: the text after the final
\* '.', empty when the filename has no '.'
ExtensionOf(filename) ==
    LET dots == {k \in 1..Len(filename) : filename[k] = "."}
    IN  IF dots = {} THEN <<>>
        ELSE SubSeq(filename, SetMax(dots) + 1, Len(filename))

\* C15: guess_mime_type(filename) is the table entry of the lower-cased text
\* after the final '.' of the filename when that is a known extension, and
\* application/octet-stream otherwise, in particular for every filename
\* without a '.'.
C15_ClassifyByExtension ==
    ret.op = "guess_mime_type" =>
        ret.val = IF \E e \in MimeTable : e[1] = Fold(ExtensionOf(ret.args[1]))
                  THEN (CHOOSE e \in MimeTable : e[1] = Fold(ExtensionOf(ret.args[1])))[2]
                  ELSE OCTET_STREAM

\* C19: extract_text and describe_media return for every filename, byte
\* content and MIME type, with a value or the absent value: the derivation
\* step of upload never ends the ingest.
C19_DerivationReturns ==
    ret.op = "derive" => ret.ok

\* C18: search returns an error exactly when its query is malformed (the
\* FTS5 parser rejects it), and a well-formed query succeeds, with an empty
\* vector when it matches nothing.
C18_MalformedQueryError ==
    ret.op = "search" => (ret.ok <=> IsSome(FtsParse(ret.args[1])))

\* C16: no step of the Content Store or of an upload changes the bytes at a
\* path that already holds a file, distinct records have distinct file_path
\* values, and the file_path of every record an upload created leads to
\* exactly the bytes of that upload.
C16_PathsResolve ==
    [][/\ \A p \in DOMAIN disk : p \in DOMAIN disk' => disk'[p] = disk[p]
       /\ \A r1, r2 \in DOMAIN files' :
             r1 # r2 => files'[r1].file_path # files'[r2].file_path
       /\ \A r \in DOMAIN files', t \in Tasks :
             tasks'[t].id = files'[r].id
                => /\ files'[r].file_path \in DOMAIN disk'
                   /\ disk'[files'[r].file_path] = tasks'[t].data]_vars

\* the shadow index of db holds exactly the documents and postings of its rows
Lockstep(db) ==
    /\ db.fts.docs = DOMAIN db.files
    /\ db.fts.postings = UNION {Postings(r, FtsValues(db.files[r])) : r \in DOMAIN db.files}

\* positions of a call between the return of lock() and the drop of the guard
BodyPcs == {"locked", "row", "text", "desc", "counted", "body_done"}

\* C17: under every interleaving of concurrent insert, update_content, get,
\* list and search calls, a call that is inside its body holds the lock alone,
\* the database it found when it took the lock had no partly applied insert
\* or update (base rows and shadow index in lockstep), and when its body ends
\* the database and its result are exactly those of the whole operation
\* applied in one step to the database it found: the calls take effect one
\* after the other in the order in which they took the lock.
C17_CallsAtomic ==
    \A c \in Calls :
        LET k == calls[c]
            a == k.args
        IN  /\ k.pc \in BodyPcs => lock = c /\ Lockstep(k.seen)
            /\ k.pc = "body_done" =>
                  CASE k.op = "insert" ->
                         LET r == SqlInsert(k.seen, a[1], TRUE)
                         IN  IF IsSome(r) THEN k.ok /\ DB = Unwrap(r)
                                          ELSE ~k.ok /\ DB = k.seen
                    [] k.op = "update_content" ->
                         k.ok /\ DB = Unwrap(SqlUpdate(k.seen, a[1], a[2], a[3], TRUE)).db
                    [] k.op = "get" ->
                         DB = k.seen /\ k.out = QueryGet(k.seen, a[1])
                    [] k.op = "list" ->
                         DB = k.seen /\ k.out \in ListResponses(k.seen, a[1], a[2], a[3], a[4])
                    [] k.op = "search" ->
                         DB = k.seen /\ k.out \in SearchResults(k.seen, a[1], a[2])

\* an update holds the lock with the new extracted_text and the old
\* ai_description written to an existing row, the shadow index still showing
\* the old text, while a get of that row is waiting for the lock
C17_Witness ==
    \E c, d \in Calls :
        /\ calls[c].op = "update_content" /\ calls[c].pc = "text"
        /\ \E r \in DOMAIN files :
              /\ files[r].id = <<"id", 1>>
              /\ files[r].extracted_text = Some(T_DOG)
              /\ files[r].ai_description = None
        /\ ~Lockstep(DB)
        /\ calls[d].op = "get" /\ calls[d].pc = "waiting"

\* C20: the total and the files of a list response come from one state of
\* the index: the database is the same at the count and at the page query,
\* total is the filtered row count of the state the page was read from, and
\* no row inserted by a concurrent call is counted without being on the page
\* or on the page without being counted.
C20_ListOneState ==
    \A c \in Calls :
        LET k == calls[c]
            a == k.args
            b == build_filter(a[3], a[4], a[1], a[2])
        IN  k.op = "list" /\ k.pc = "body_done" =>
               /\ k.counted = k.paged
               /\ k.out.total = QueryCount(k.paged, b.where_sql, b.count_params)
               /\ k.out.files \in QueryPage(k.paged, b.where_sql, b.query_params)
               /\ k.out.total = Len(k.out.files)

\* a list has counted one row and not yet read its page, while an insert of
\* another record is waiting for the lock
C20_Witness ==
    \E c, d \in Calls :
        /\ calls[c].op = "list" /\ calls[c].pc = "counted" /\ calls[c].total = 1
        /\ calls[d].op = "insert" /\ calls[d].pc = "waiting"
        /\ RowidOf(DB, calls[d].args[1].id) = {}

\* the file of a record that an upload made is on disk with all its bytes
FileComplete(record) ==
    \A t \in Tasks :
        tasks[t].id = record.id =>
            /\ tasks[t].pc \notin {"idle", "writing"}
            /\ record.file_path \in DOMAIN disk
            /\ disk[record.file_path] = tasks[t].data

\* C21: under every interleaving of concurrent uploads, an upload has its
\* insert behind the end of its write: whenever the index holds a record an
\* upload created, and whenever get, list or search has returned one, the
\* file at its file_path holds all the bytes of that upload.
C21_StoredBeforeVisible ==
    /\ \A r \in DOMAIN files : FileComplete(files[r])
    /\ ret.op = "get" /\ IsSome(ret.val) => FileComplete(Unwrap(ret.val))
    /\ ret.op = "list" => \A k \in 1..Len(ret.val.files) : FileComplete(ret.val.files[k])
    /\ ret.op = "search" => \A k \in 1..Len(ret.val) : FileComplete(ret.val[k])

\* the upload that began second is already returned by get while the one
\* that began first is still inside fs::write, its file on disk incomplete
C21_Witness ==
    \E t, u \in Tasks :
        /\ t < u
        /\ tasks[t].pc = "writing"
        /\ disk[tasks[t].rel_path] # tasks[t].data
        /\ ret.op = "get" /\ ret.val = tasks[u].result /\ IsSome(ret.val)
        /\ Unwrap(ret.val).id = tasks[u].id
====
